---- MODULE Spec2Model ----
(***************************************************************************)
(* Model of L-QLES/l-qles.py: the command-line driver that reads its       *)
(* arguments, assembles a discrete Laplacian system, optionally reorders   *)
(* it, solves it, persists the case and optionally runs eigen diagnostics  *)
(* and plots.                                                              *)
(*                                                                         *)
(* Strings that the program takes apart (command-line words) are modelled  *)
(* as sequences of one-character strings: "-re" is <<"-","r","e">>.        *)
(* Matrices are sequences of rows, vectors are sequences of integers.      *)
(***************************************************************************)
EXTENDS Integers, Sequences, FiniteSets, TLC

\* ---------------------------------------------------------------- bounds
\* longest command line explored
MaxArgs == 4
\* largest number of mesh points (rows of the assembled matrix)
MaxN == 3
\* entries of the right-hand side and of the solver output lie in 0..MaxVal
MaxVal == 1

\* ------------------------------------------------------ program constants
\* numpy.allclose default relative tolerance is 1e-5 (its inverse)
RtolInv == 100000
\* exit status of sys.exit(2) after getopt.GetoptError
ExitUsage == 2
\* exit status of sys.exit(3) when the input file does not exist
ExitNoFile == 3
\* exit status of sys.exit() in the help branch, and of a normal return
ExitOk == 0
\* exit status of the interpreter after an uncaught exception
ExitException == 1

\* ------------------------------------------------------------ the words
Str_h == <<"-", "h">>
Str_c == <<"-", "c">>
Str_cc == <<"-", "-", "c">>
Str_d == <<"-", "d">>
Str_dd == <<"-", "-", "d">>
Str_e == <<"-", "e">>
Str_ee == <<"-", "-", "e">>
Str_i == <<"-", "i">>
Str_ii == <<"-", "-", "i">>
Str_m == <<"-", "m">>
Str_mm == <<"-", "-", "m">>
Str_j == <<"-", "j">>
Str_jj == <<"-", "-", "j">>
Str_r == <<"-", "r">>
Str_rr == <<"-", "-", "r">>
Str_s == <<"-", "s">>
Str_ss == <<"-", "-", "s">>

\* second argument of getopt.getopt: "hmsdejri:c:"
shortopts == <<"h", "m", "s", "d", "e", "j", "r", "i", ":", "c", ":">>
\* third argument of getopt.getopt: ["i=", "c="]
longopts == << <<"i", "=">>, <<"c", "=">> >>

\* the files that exist when the program runs (os.path.isfile)
ExistingFiles == { <<"f">> }

isfile(path) == path \in ExistingFiles

\* the command-line words the exploration draws from
ArgTokens ==
  { Str_h, Str_i, <<"-", "i", "f">>, <<"f">>, Str_r, Str_e,
    <<"-", "s", "m">>, Str_d, <<"-", "x">>, <<"-", "-", "i", "=", "f">> }

\* ------------------------------------------------------------- getopt
GetoptError == [ok |-> FALSE, opts |-> <<>>, args |-> <<>>]

startswith(str, prefix) ==
  /\ Len(prefix) <= Len(str)
  /\ SubSeq(str, 1, Len(prefix)) = prefix

\* getopt.short_has_arg: the positions of opt in shortopts that are not ':'
ShortPos(opt) == { k \in 1..Len(shortopts) : opt = shortopts[k] /\ shortopts[k] # ":" }

ShortKnown(opt) == ShortPos(opt) # {}

short_has_arg(opt) ==
  LET k == CHOOSE p \in ShortPos(opt) : \A r \in ShortPos(opt) : p <= r
  IN  k + 1 <= Len(shortopts) /\ shortopts[k + 1] = ":"

RECURSIVE do_shorts(_, _, _)
do_shorts(opts, optstring, args) ==
  IF optstring = <<>> THEN [ok |-> TRUE, opts |-> opts, args |-> args]
  ELSE LET opt == Head(optstring)
           rest == Tail(optstring)
       IN  IF ~ShortKnown(opt) THEN GetoptError
           ELSE IF short_has_arg(opt)
             THEN IF rest = <<>>
                    THEN IF args = <<>> THEN GetoptError
                         ELSE [ok |-> TRUE,
                               opts |-> Append(opts, << <<"-", opt>>, Head(args) >>),
                               args |-> Tail(args)]
                    ELSE [ok |-> TRUE,
                          opts |-> Append(opts, << <<"-", opt>>, rest >>),
                          args |-> args]
             ELSE do_shorts(Append(opts, << <<"-", opt>>, <<>> >>), rest, args)

\* position of the first '=' in a word, 0 when there is none
IndexEq(str) ==
  LET S == { k \in 1..Len(str) : str[k] = "=" }
  IN  IF S = {} THEN 0 ELSE CHOOSE p \in S : \A r \in S : p <= r

\* getopt.long_has_args: [ok, has_arg, opt]
long_has_args(opt) ==
  LET possibilities == { k \in 1..Len(longopts) : startswith(longopts[k], opt) }
      exact == { k \in possibilities : longopts[k] = opt }
      exactArg == { k \in possibilities : longopts[k] = Append(opt, "=") }
  IN  IF possibilities = {} THEN [ok |-> FALSE, has_arg |-> FALSE, opt |-> opt]
      ELSE IF exact # {} THEN [ok |-> TRUE, has_arg |-> FALSE, opt |-> opt]
      ELSE IF exactArg # {} THEN [ok |-> TRUE, has_arg |-> TRUE, opt |-> opt]
      ELSE IF Cardinality(possibilities) > 1
        THEN [ok |-> FALSE, has_arg |-> FALSE, opt |-> opt]
      ELSE LET m == longopts[CHOOSE k \in possibilities : TRUE]
               ha == m[Len(m)] = "="
           IN  [ok |-> TRUE, has_arg |-> ha,
                opt |-> IF ha THEN SubSeq(m, 1, Len(m) - 1) ELSE m]

\* getopt.do_longs, one long option word (without its leading "--")
do_longs(opts, word, args) ==
  LET i == IndexEq(word)
      opt == IF i = 0 THEN word ELSE SubSeq(word, 1, i - 1)
      given == i # 0
      optarg == IF i = 0 THEN <<>> ELSE SubSeq(word, i + 1, Len(word))
      h == long_has_args(opt)
      name == <<"-", "-">> \o h.opt
  IN  IF ~h.ok THEN GetoptError
      ELSE IF h.has_arg
        THEN IF ~given
               THEN IF args = <<>> THEN GetoptError
                    ELSE [ok |-> TRUE, opts |-> Append(opts, <<name, Head(args)>>),
                          args |-> Tail(args)]
               ELSE [ok |-> TRUE, opts |-> Append(opts, <<name, optarg>>), args |-> args]
        ELSE IF given THEN GetoptError
             ELSE [ok |-> TRUE, opts |-> Append(opts, <<name, <<>> >>), args |-> args]

\* getopt.getopt(argv, "hmsdejri:c:", ["i=", "c="])
RECURSIVE getopt(_, _)
getopt(opts, args) ==
  IF args = <<>> \/ ~startswith(Head(args), <<"-">>) \/ Head(args) = <<"-">>
    THEN [ok |-> TRUE, opts |-> opts, args |-> args]
  ELSE IF Head(args) = <<"-", "-">>
    THEN [ok |-> TRUE, opts |-> opts, args |-> Tail(args)]
  ELSE LET step == IF startswith(Head(args), <<"-", "-">>)
                     THEN do_longs(opts, SubSeq(Head(args), 3, Len(Head(args))), Tail(args))
                     ELSE do_shorts(opts, Tail(Head(args)), Tail(args))
       IN  IF ~step.ok THEN GetoptError ELSE getopt(step.opts, step.args)

\* ----------------------------------------------------------- read_args
\* the locals of read_args before the option loop
DefaultConfig ==
  [inputfile |-> <<>>, mplot |-> FALSE, splot |-> FALSE, cut3d |-> <<"x">>,
   degen |-> FALSE, eigen |-> FALSE, order |-> FALSE, psplt |-> FALSE]

\* one pass of the body of "for opt, arg in opts" that is not the -h branch
ApplyOpt(c, opt, arg) ==
  IF opt \in {Str_c, Str_cc} THEN [c EXCEPT !.cut3d = arg]
  ELSE IF opt \in {Str_d, Str_dd} THEN [c EXCEPT !.degen = TRUE]
  ELSE IF opt \in {Str_e, Str_ee} THEN [c EXCEPT !.eigen = TRUE]
  ELSE IF opt \in {Str_i, Str_ii} THEN [c EXCEPT !.inputfile = arg]
  ELSE IF opt \in {Str_m, Str_mm} THEN [c EXCEPT !.mplot = TRUE]
  ELSE IF opt \in {Str_j, Str_jj} THEN [c EXCEPT !.psplt = TRUE]
  ELSE IF opt \in {Str_r, Str_rr} THEN [c EXCEPT !.order = TRUE]
  ELSE IF opt \in {Str_s, Str_ss} THEN [c EXCEPT !.splot = TRUE]
  ELSE c

\* the option loop: [exit |-> TRUE] as soon as -h is met
RECURSIVE OptLoop(_, _)
OptLoop(c, opts) ==
  IF opts = <<>> THEN [exit |-> FALSE, cfg |-> c]
  ELSE IF Head(opts)[1] = Str_h THEN [exit |-> TRUE, cfg |-> c]
  ELSE OptLoop(ApplyOpt(c, Head(opts)[1], Head(opts)[2]), Tail(opts))

\* faulty variant: the file check is left out
FileMissing_Never(c) == FALSE

\* the file check that follows the option loop
FileMissing(c) == ~isfile(c.inputfile)

\* faulty variant: the file check comes before the option loop is honoured
read_args_FileFirst(av) ==
  LET g == getopt(<<>>, av)
  IN  IF ~g.ok THEN [exit |-> ExitUsage, cfg |-> DefaultConfig]
      ELSE LET l == OptLoop(DefaultConfig, g.opts)
           IN  IF FileMissing(l.cfg) THEN [exit |-> ExitNoFile, cfg |-> l.cfg]
               ELSE IF l.exit THEN [exit |-> ExitOk, cfg |-> l.cfg]
               ELSE [exit |-> -1, cfg |-> l.cfg]

\* read_args(argv): [exit |-> exit status or -1 when it returns, cfg |-> the tuple returned]
read_args(av) ==
  LET g == getopt(<<>>, av)
  IN  IF ~g.ok THEN [exit |-> ExitUsage, cfg |-> DefaultConfig]
      ELSE LET l == OptLoop(DefaultConfig, g.opts)
           IN  IF l.exit THEN [exit |-> ExitOk, cfg |-> l.cfg]
               ELSE IF FileMissing(l.cfg) THEN [exit |-> ExitNoFile, cfg |-> l.cfg]
               ELSE [exit |-> -1, cfg |-> l.cfg]

\* ------------------------------------------------------- linear algebra
Abs(n) == IF n < 0 THEN -n ELSE n

RECURSIVE SumTo(_, _, _)
SumTo(u, v, n) == IF n = 0 THEN 0 ELSE u[n] * v[n] + SumTo(u, v, n - 1)

\* inner product of two vectors
Inner(u, v) == SumTo(u, v, Len(u))

\* np.dot(m, v) and np.matmul(m, v) for a matrix and a vector
dot(m, v) == [i \in 1..Len(m) |-> Inner(m[i], v)]

\* np.transpose(m)
transpose(m) == [i \in 1..Len(m) |-> [j \in 1..Len(m) |-> m[j][i]]]

\* np.matmul(m1, m2) for two square matrices
matmul(m1, m2) ==
  [i \in 1..Len(m1) |-> [j \in 1..Len(m1) |-> Inner(m1[i], transpose(m2)[j])]]

\* np.identity(n)
identity(n) == [i \in 1..n |-> [j \in 1..n |-> IF i = j THEN 1 ELSE 0]]

\* np.zeros([n, n])
zeros(n) == [i \in 1..n |-> [j \in 1..n |-> 0]]

\* np.allclose(u, v): |u - v| <= atol + rtol * |v| in every entry, atol = 1e-8 and
\* rtol = 1e-5.  On integers atol < 1 cannot decide the comparison, so the test
\* is |u - v| / rtol <= |v|.
allclose(u, v) == \A i \in 1..Len(u) : Abs(u[i] - v[i]) * RtolInv <= Abs(v[i])

\* np.block([[zeros, m], [transpose(m), zeros]])
block(m) ==
  LET n == Len(m)
      t == transpose(m)
  IN  [i \in 1..(2 * n) |->
        IF i <= n THEN zeros(n)[i] \o m[i] ELSE t[i - n] \o zeros(n)[i - n]]

\* ------------------------------------------------- external collaborators
\* a local name that has not been assigned yet
Unbound == <<>>

\* faulty variant: every name counts as assigned
IsBound_Always(v) == TRUE

IsBound(v) == v # Unbound

\* what parse_meshfile may return as ndims
NdimsRange == 0..4

\* the only case name
CaseName == "case"

\* generate_mesh: a coordinate sequence of n points
Coordinates(n) == [i \in 1..n |-> i - 1]

\* the point counts the meshes may have
PointCounts == 1..MaxN

\* Laplacian stencil with Dirichlet boundary rows
Dirichlet(n) ==
  [i \in 1..n |-> [j \in 1..n |->
     IF i = 1 \/ i = n THEN (IF i = j THEN 1 ELSE 0)
     ELSE IF i = j THEN 2 ELSE IF Abs(i - j) = 1 THEN -1 ELSE 0]]

\* Laplacian stencil with Neumann boundary rows: singular
Neumann(n) ==
  [i \in 1..n |-> [j \in 1..n |->
     IF Abs(i - j) = 1 THEN -1
     ELSE IF i # j THEN 0
     ELSE IF n = 1 THEN 0
     ELSE IF i = 1 \/ i = n THEN 1 ELSE 2]]

\* matvec_1d / matvec_2d / matvec_3d: the systems (a, b) of n points they may return
Systems(n, degen) ==
  { [a |-> m, b |-> r] :
      m \in {Dirichlet(n)} \cup (IF degen THEN {Neumann(n)} ELSE {}),
      r \in [1..n -> 0..MaxVal] }

\* the permutations of 1..n
Perms(n) == { p \in [1..n -> 1..n] : \A i, j \in 1..n : p[i] = p[j] => i = j }

\* the permutation matrix of p: row i has its 1 in column p[i]
PermMatrix(p) == [i \in 1..Len(p) |-> [j \in 1..Len(p) |-> IF j = p[i] THEN 1 ELSE 0]]

\* reorder(a, b, nx, ny, nz): a permutation matrix Q with Q a Q^T and Q b
reorder(a_, b_, nx, ny, nz) ==
  { [q |-> PermMatrix(p),
     a |-> matmul(PermMatrix(p), matmul(a_, transpose(PermMatrix(p)))),
     b |-> dot(PermMatrix(p), b_)] : p \in Perms(nx * ny * nz) }

\* spsolve(SP, b): what the sparse direct solver may return for n unknowns
spsolve(n) == [1..n -> 0..MaxVal]

\* ------------------------------------------------------------- laplace
\* faulty variant: the diagnostics run between the solve and persistence
NextStage_DiagnoseFirst(stage) ==
  CASE stage = "read_args" -> "parse_meshfile"
    [] stage = "parse_meshfile" -> "generate_mesh"
    [] stage = "generate_mesh" -> "matvec"
    [] stage = "matvec" -> "reorder"
    [] stage = "reorder" -> "solve"
    [] stage = "solve" -> "permute"
    [] stage = "permute" -> "eigen"
    [] stage = "eigen" -> "case_save_npz"
    [] stage = "case_save_npz" -> "case_save_bin"
    [] stage = "case_save_bin" -> "plotsol"
    [] stage = "plotsol" -> "plotmat"
    [] stage = "plotmat" -> "done"

\* the order in which laplace runs its stages
NextStage(stage) ==
  CASE stage = "read_args" -> "parse_meshfile"
    [] stage = "parse_meshfile" -> "generate_mesh"
    [] stage = "generate_mesh" -> "matvec"
    [] stage = "matvec" -> "reorder"
    [] stage = "reorder" -> "solve"
    [] stage = "solve" -> "permute"
    [] stage = "permute" -> "case_save_npz"
    [] stage = "case_save_npz" -> "case_save_bin"
    [] stage = "case_save_bin" -> "eigen"
    [] stage = "eigen" -> "plotsol"
    [] stage = "plotsol" -> "plotmat"
    [] stage = "plotmat" -> "done"

\* faulty variant: an all-zero matrix stands for "no permutation"
NoReorderQ_Zeros(a_) == zeros(Len(a_))

\* q when reordering is disabled
NoReorderQ(a_) == identity(Len(a_))

\* status = np.allclose(np.dot(a, s), b)
SolutionStatus(a_, s_, b_) == allclose(dot(a_, s_), b_)

\* "permute solution": s = np.matmul(q, s) when reordering is enabled
PermuteSolution(order, q_, s_) == IF order THEN dot(q_, s_) ELSE s_

\* the arguments of case_save_npz and case_save_bin
CaseRecord(a_, b_, s_, q_, status_, degen, order, casename_) ==
  [a |-> a_, b |-> b_, s |-> s_, q |-> q_, status |-> status_,
   degen |-> degen, order |-> order, casename |-> casename_]

\* faulty variant: the blocks of the symmetrised matrix are swapped
EigenInput_Transposed(a_) == transpose(a_)

\* the matrix the eigen analysis symmetrises
EigenInput(a_) == a_

\* asym = np.block([[zeros, a], [a^T, zeros]])
Asym(a_) == block(EigenInput(a_))

\* the solution plot laplace calls for ndims
PlotSol(nd) ==
  (IF nd = 1 THEN {"plotsol_1d"} ELSE {})
    \cup (IF nd = 2 THEN {"plotsol_2d"} ELSE {})
    \cup (IF nd = 3 THEN {"plotsol_3d"} ELSE {})

VARIABLES
  pc,        \* the stage laplace is about to run, or "exit" / "fatal" / "done"
  argv,      \* sys.argv[1:]
  exitcode,  \* exit status of the process, -1 while it runs
  failed,    \* the stage whose exception ended the run, "" if none
  cfg,       \* inputfile, mplot, splot, cut, degen, eigen, order, psplt
  casename, ndims,
  x, y, z,   \* mesh coordinates
  a, b, q, s, status,
  npz, bin,  \* what case_save_npz / case_save_bin were handed: <<>> or <<record>>
  asym,      \* the symmetrised matrix of the eigen analysis
  plots,     \* the plot routines that ran
  trace,     \* the stages run so far, in order
  a0, b0,    \* history: the system as returned by matvec_Nd
  s0         \* history: the solver output

vars == <<pc, argv, exitcode, failed, cfg, casename, ndims, x, y, z, a, b, q, s,
          status, npz, bin, asym, plots, trace, a0, b0, s0>>

Argvs == UNION { [1..n -> ArgTokens] : n \in 0..MaxArgs }

Init ==
  /\ pc = "read_args"
  /\ argv \in Argvs
  /\ exitcode = -1
  /\ failed = ""
  /\ cfg = DefaultConfig
  /\ casename = ""
  /\ ndims = -1
  /\ x = Unbound /\ y = Unbound /\ z = Unbound
  /\ a = Unbound /\ b = Unbound /\ q = Unbound /\ s = Unbound
  /\ status = FALSE
  /\ npz = <<>> /\ bin = <<>>
  /\ asym = Unbound
  /\ plots = {}
  /\ trace = <<>>
  /\ a0 = Unbound /\ b0 = Unbound /\ s0 = Unbound

\* an exception nobody catches: the interpreter ends the process
Raise(stage) ==
  /\ pc' = "fatal"
  /\ exitcode' = ExitException
  /\ failed' = stage

\* faulty variant: a residual mismatch ends the run after the status is known
Continue_StopOnMismatch(stage) ==
  IF stage = "permute" /\ ~status
    THEN pc' = "exit" /\ exitcode' = ExitException /\ UNCHANGED failed
    ELSE pc' = NextStage(stage) /\ UNCHANGED <<exitcode, failed>>

\* the stage returned: laplace goes on with the next one
Continue(stage) ==
  /\ pc' = NextStage(stage)
  /\ UNCHANGED <<exitcode, failed>>

\* laplace line 112: read_args(argv).  laplace never reads argv after read_args
\* has returned, so the model forgets it there: runs with the same configuration
\* continue as one.
ReadArgs ==
  /\ pc = "read_args"
  /\ LET r == read_args(argv)
     IN  /\ cfg' = r.cfg
         /\ IF r.exit = -1
              THEN Continue("read_args") /\ argv' = <<>>
              ELSE pc' = "exit" /\ exitcode' = r.exit /\ UNCHANGED <<failed, argv>>
  /\ trace' = Append(trace, "read_args")
  /\ UNCHANGED <<casename, ndims, x, y, z, a, b, q, s, status, npz, bin,
                 asym, plots, a0, b0, s0>>

\* laplace line 113: casename, ndims, rdict = parse_meshfile(inputfile)
ParseMeshfile ==
  /\ pc = "parse_meshfile"
  /\ trace' = Append(trace, "parse_meshfile")
  /\ \/ /\ \E nd \in NdimsRange : ndims' = nd
        /\ casename' = CaseName
        /\ Continue("parse_meshfile")
     \/ /\ Raise("parse_meshfile")
        /\ UNCHANGED <<casename, ndims>>
  /\ UNCHANGED <<argv, cfg, x, y, z, a, b, q, s, status, npz, bin, asym, plots,
                 a0, b0, s0>>

\* laplace lines 117-119: generate_mesh for every axis below ndims
GenerateMesh ==
  /\ pc = "generate_mesh"
  /\ IF ndims > 0
       THEN /\ trace' = Append(trace, "generate_mesh")
            /\ \/ /\ \E nx \in PointCounts, ny \in PointCounts, nz \in PointCounts :
                       /\ ndims <= 1 => ny = 1
                       /\ ndims <= 2 => nz = 1
                       /\ nx * ny * nz <= MaxN
                       /\ x' = Coordinates(nx)
                       /\ y' = IF ndims > 1 THEN Coordinates(ny) ELSE Unbound
                       /\ z' = IF ndims > 2 THEN Coordinates(nz) ELSE Unbound
                  /\ Continue("generate_mesh")
               \/ /\ Raise("generate_mesh")
                  /\ UNCHANGED <<x, y, z>>
       ELSE /\ Continue("generate_mesh")
            /\ UNCHANGED <<trace, x, y, z>>
  /\ UNCHANGED <<argv, cfg, casename, ndims, a, b, q, s, status, npz, bin, asym,
                 plots, a0, b0, s0>>

\* len() of a mesh axis, 1 for an axis the dimension does not use
AxisLen(c, used) == IF used THEN Len(c) ELSE 1

\* laplace lines 122-127: a, b = matvec_Nd(...)
Matvec ==
  /\ pc = "matvec"
  /\ IF ndims \in {1, 2, 3}
       THEN /\ trace' = Append(trace, "matvec")
            /\ \/ /\ \E sys \in Systems(AxisLen(x, TRUE) * AxisLen(y, ndims > 1) * AxisLen(z, ndims > 2), cfg.degen) :
                       /\ a' = sys.a /\ b' = sys.b
                       /\ a0' = sys.a /\ b0' = sys.b
                  /\ Continue("matvec")
               \/ /\ Raise("matvec")
                  /\ UNCHANGED <<a, b, a0, b0>>
       ELSE /\ Continue("matvec")
            /\ UNCHANGED <<trace, a, b, a0, b0>>
  /\ UNCHANGED <<argv, cfg, casename, ndims, x, y, z, q, s, status, npz, bin, asym,
                 plots, s0>>

\* laplace lines 130-138: q, a, b = reorder(...) or q = identity
Reorder ==
  /\ pc = "reorder"
  /\ IF cfg.order
       THEN IF ndims \in {1, 2, 3}
              THEN /\ trace' = Append(trace, "reorder")
                   /\ \/ /\ \E r \in reorder(a, b, AxisLen(x, TRUE), AxisLen(y, ndims > 1), AxisLen(z, ndims > 2)) :
                              q' = r.q /\ a' = r.a /\ b' = r.b
                         /\ Continue("reorder")
                      \/ /\ Raise("reorder")
                         /\ UNCHANGED <<q, a, b>>
              ELSE /\ Continue("reorder")
                   /\ UNCHANGED <<trace, q, a, b>>
       ELSE /\ IF IsBound(a)
                 THEN q' = NoReorderQ(a) /\ Continue("reorder")
                 ELSE Raise("reorder") /\ UNCHANGED q
            /\ UNCHANGED <<trace, a, b>>
  /\ UNCHANGED <<argv, cfg, casename, ndims, x, y, z, s, status, npz, bin, asym,
                 plots, a0, b0, s0>>

\* laplace lines 141-144: SP = csr_matrix(a); s = spsolve(SP, b); status = allclose
Solve ==
  /\ pc = "solve"
  /\ IF IsBound(a)
       THEN /\ trace' = Append(trace, "solve")
            /\ \/ /\ \E r \in spsolve(Len(a)) :
                       /\ s' = r /\ s0' = r
                       /\ status' = SolutionStatus(a, r, b)
                  /\ Continue("solve")
               \/ /\ Raise("solve")
                  /\ UNCHANGED <<s, s0, status>>
       ELSE /\ Raise("solve")
            /\ UNCHANGED <<trace, s, s0, status>>
  /\ UNCHANGED <<argv, cfg, casename, ndims, x, y, z, a, b, q, npz, bin, asym,
                 plots, a0, b0>>

\* laplace lines 147-148: permute solution
Permute ==
  /\ pc = "permute"
  /\ s' = PermuteSolution(cfg.order, q, s)
  /\ Continue("permute")
  /\ UNCHANGED <<argv, cfg, casename, ndims, x, y, z, a, b, q, status, npz, bin,
                 asym, plots, trace, a0, b0, s0>>

\* laplace line 151: case_save_npz(a, b, s, q, status, degen, order, casename)
SaveNpz ==
  /\ pc = "case_save_npz"
  /\ trace' = Append(trace, "case_save_npz")
  /\ \/ /\ npz' = <<CaseRecord(a, b, s, q, status, cfg.degen, cfg.order, casename)>>
        /\ Continue("case_save_npz")
     \/ /\ Raise("case_save_npz")
        /\ UNCHANGED npz
  /\ UNCHANGED <<argv, cfg, casename, ndims, x, y, z, a, b, q, s, status, bin,
                 asym, plots, a0, b0, s0>>

\* laplace line 152: case_save_bin(a, b, s, q, status, degen, order, casename)
SaveBin ==
  /\ pc = "case_save_bin"
  /\ trace' = Append(trace, "case_save_bin")
  /\ \/ /\ bin' = <<CaseRecord(a, b, s, q, status, cfg.degen, cfg.order, casename)>>
        /\ Continue("case_save_bin")
     \/ /\ Raise("case_save_bin")
        /\ UNCHANGED bin
  /\ UNCHANGED <<argv, cfg, casename, ndims, x, y, z, a, b, q, s, status, npz,
                 asym, plots, a0, b0, s0>>

\* laplace lines 155-166: eigen analysis of the symmetrised matrix
Eigen ==
  /\ pc = "eigen"
  /\ IF cfg.eigen
       THEN /\ trace' = Append(trace, "eigen")
            /\ \/ /\ asym' = Asym(a)
                  /\ Continue("eigen")
               \/ /\ Raise("eigen")
                  /\ UNCHANGED asym
       ELSE /\ Continue("eigen")
            /\ UNCHANGED <<trace, asym>>
  /\ UNCHANGED <<argv, cfg, casename, ndims, x, y, z, a, b, q, s, status, npz,
                 bin, plots, a0, b0, s0>>

\* laplace lines 169-175: plotsol_1d / plotsol_2d / plotsol_3d
PlotSolution ==
  /\ pc = "plotsol"
  /\ IF cfg.splot
       THEN /\ trace' = Append(trace, "plotsol")
            /\ \/ /\ plots' = plots \cup PlotSol(ndims)
                  /\ Continue("plotsol")
               \/ /\ Raise("plotsol")
                  /\ UNCHANGED plots
       ELSE /\ Continue("plotsol")
            /\ UNCHANGED <<trace, plots>>
  /\ UNCHANGED <<argv, cfg, casename, ndims, x, y, z, a, b, q, s, status, npz,
                 bin, asym, a0, b0, s0>>

\* laplace line 177: plotmat(a, psplt), then laplace returns
PlotMatrix ==
  /\ pc = "plotmat"
  /\ IF cfg.mplot
       THEN /\ trace' = Append(trace, "plotmat")
            /\ \/ /\ plots' = plots \cup {"plotmat"}
                  /\ pc' = NextStage("plotmat")
                  /\ exitcode' = ExitOk
                  /\ UNCHANGED failed
               \/ /\ Raise("plotmat")
                  /\ UNCHANGED plots
       ELSE /\ pc' = NextStage("plotmat")
            /\ exitcode' = ExitOk
            /\ UNCHANGED <<failed, trace, plots>>
  /\ UNCHANGED <<argv, cfg, casename, ndims, x, y, z, a, b, q, s, status, npz,
                 bin, asym, a0, b0, s0>>

Next ==
  \/ ReadArgs
  \/ ParseMeshfile
  \/ GenerateMesh
  \/ Matvec
  \/ Reorder
  \/ Solve
  \/ Permute
  \/ SaveNpz
  \/ SaveBin
  \/ Eigen
  \/ PlotSolution
  \/ PlotMatrix

Spec == Init /\ [][Next]_vars

TypeOK ==
  /\ pc \in {"read_args", "parse_meshfile", "generate_mesh", "matvec", "reorder",
             "solve", "permute", "case_save_npz", "case_save_bin", "eigen",
             "plotsol", "plotmat", "done", "exit", "fatal"}
  /\ exitcode \in {-1, ExitOk, ExitException, ExitUsage, ExitNoFile}

\* ------------------------------------------------------------ the claims
Ran(stage) == \E i \in 1..Len(trace) : trace[i] = stage

Terminated == pc \in {"done", "exit", "fatal"}

\* nothing of the pipeline after read_args has run
NothingRan ==
  /\ trace = <<"read_args">>
  /\ ndims = -1 /\ casename = ""
  /\ x = Unbound /\ a = Unbound /\ q = Unbound /\ s = Unbound
  /\ npz = <<>> /\ bin = <<>> /\ asym = Unbound /\ plots = {}

\* -h is among the options getopt returned
HasHelp(opts) == \E i \in 1..Len(opts) : opts[i][1] = Str_h

\* the argument of the last -i / --i option, '' when there is none
RECURSIVE LastInput(_)
LastInput(opts) ==
  IF opts = <<>> THEN <<>>
  ELSE IF opts[Len(opts)][1] \in {Str_i, Str_ii} THEN opts[Len(opts)][2]
  ELSE LastInput(SubSeq(opts, 1, Len(opts) - 1))

\* the word -h occurs on the command line
HelpWord(av) == \E i \in 1..Len(av) : av[i] = Str_h

\* C1: in every run that reaches persistence, the reported status is true exactly
\* when A.s is close to b for the matrix and right-hand side as matvec_Nd returned
\* them and the final solution handed to persistence.
C1_StatusOfOriginalSystem ==
  npz # <<>> => (npz[1].status <=> allclose(dot(a0, npz[1].s), b0))

\* C2: with reordering enabled and a solver output s' that solves the permuted
\* system exactly, the final solution is Q^T s' and solves the system matvec_Nd
\* returned.
C2_RecoveredSolution ==
  (npz # <<>> /\ cfg.order /\ dot(a, s0) = b)
    => /\ npz[1].s = dot(transpose(q), s0)
       /\ dot(a0, npz[1].s) = b0

\* C3: read_args exits with 2 when getopt fails, and with 3 when getopt succeeds
\* without -h and the input path is no existing file; after either exit nothing
\* else runs.
C3_UsageAndMissingFile ==
  [][ /\ pc = "read_args" =>
           LET g == getopt(<<>>, argv)
           IN  /\ ~g.ok => (pc' = "exit" /\ exitcode' = ExitUsage /\ NothingRan')
               /\ (g.ok /\ ~HasHelp(g.opts) /\ ~isfile(LastInput(g.opts)))
                    => (pc' = "exit" /\ exitcode' = ExitNoFile /\ NothingRan')
      /\ pc = "exit" => FALSE ]_vars

C3_Witness ==
  /\ pc = "exit" /\ exitcode = ExitNoFile
  /\ getopt(<<>>, argv).ok
  /\ LastInput(getopt(<<>>, argv).opts) # <<>>
  /\ NothingRan

\* C4: with reordering disabled, Q is the identity of the size of the assembled
\* matrix, the solver and persistence get the assembled A and b, and the persisted
\* solution is the solver output; the reorder branch with an identity permutation
\* gives the same.
C4_NoReorderIsIdentity ==
  /\ (pc \in {"solve", "permute"} /\ ~cfg.order)
       => (a = a0 /\ b = b0 /\ q = identity(Len(a0)))
  /\ \A rec \in {npz[i] : i \in 1..Len(npz)} \cup {bin[i] : i \in 1..Len(bin)} :
       (~rec.order \/ rec.q = identity(Len(a0)))
         => /\ rec.q = identity(Len(a0))
            /\ Len(rec.q) = Len(a0)
            /\ rec.a = a0 /\ rec.b = b0
            /\ rec.s = s0
            /\ rec.status = allclose(dot(a0, s0), b0)

C4_Witness ==
  /\ bin # <<>> /\ ~cfg.order
  /\ Len(a0) = MaxN
  /\ bin[1].q = identity(MaxN)
  /\ bin[1].s = s0

\* the plots the flags ask for
RequestedPlots ==
  (IF cfg.splot THEN PlotSol(ndims) ELSE {}) \cup (IF cfg.mplot THEN {"plotmat"} ELSE {})

PersistedAndPlotted ==
  /\ npz # <<>> /\ bin # <<>>
  /\ npz[1].status = status /\ bin[1].status = status
  /\ plots = RequestedPlots

C6_Original ==
  [][ (pc = "read_args" /\ getopt(<<>>, argv).ok /\ HelpWord(argv))
        => (pc' = "exit" /\ exitcode' = ExitOk /\ NothingRan') ]_vars

\* C6 amended: a command line that getopt accepts and in which getopt finds the
\* option -h exits with 0 and runs nothing, whatever other options come before or
\* after it and whether or not the input file exists.
C6_HelpExits ==
  [][ (pc = "read_args" /\ getopt(<<>>, argv).ok /\ HasHelp(getopt(<<>>, argv).opts))
        => (pc' = "exit" /\ exitcode' = ExitOk /\ NothingRan') ]_vars

C6_Witness ==
  /\ pc = "exit" /\ exitcode = ExitOk
  /\ Len(argv) >= 3
  /\ argv[1] # Str_h /\ argv[Len(argv)] # Str_h
  /\ ~isfile(LastInput(getopt(<<>>, argv).opts))
  /\ NothingRan

\* position of a stage in the order the specification gives
SpecRank(stage) ==
  CASE stage = "read_args" -> 1
    [] stage = "parse_meshfile" -> 2
    [] stage = "generate_mesh" -> 3
    [] stage = "matvec" -> 4
    [] stage = "reorder" -> 5
    [] stage = "solve" -> 6
    [] stage = "eigen" -> 7
    [] stage = "case_save_npz" -> 8
    [] stage = "case_save_bin" -> 9
    [] stage = "plotsol" -> 10
    [] stage = "plotmat" -> 11

\* position of a stage with the diagnostics between persistence and plotting
CodeRank(stage) ==
  CASE stage = "read_args" -> 1
    [] stage = "parse_meshfile" -> 2
    [] stage = "generate_mesh" -> 3
    [] stage = "matvec" -> 4
    [] stage = "reorder" -> 5
    [] stage = "solve" -> 6
    [] stage = "case_save_npz" -> 7
    [] stage = "case_save_bin" -> 8
    [] stage = "eigen" -> 9
    [] stage = "plotsol" -> 10
    [] stage = "plotmat" -> 11

\* the optional stages run only when their flag is given, and a run that ends
\* normally has run every stage its flags ask for
StagesFollowFlags ==
  /\ Ran("reorder") => cfg.order
  /\ Ran("eigen") => cfg.eigen
  /\ Ran("plotsol") => cfg.splot
  /\ Ran("plotmat") => cfg.mplot
  /\ pc = "done" =>
       /\ \A st \in {"read_args", "parse_meshfile", "generate_mesh", "matvec", "solve",
                     "case_save_npz", "case_save_bin"} : Ran(st)
       /\ cfg.order => Ran("reorder")
       /\ cfg.eigen => Ran("eigen")
       /\ cfg.splot => Ran("plotsol")
       /\ cfg.mplot => Ran("plotmat")

\* C7 as stated: the stages run at most once and in the order config, mesh,
\* operator, reorder, solve, diagnose, persist, plot.
C7_Original ==
  /\ \A i, j \in 1..Len(trace) : i < j => SpecRank(trace[i]) < SpecRank(trace[j])
  /\ StagesFollowFlags

\* C7 amended: the stages run at most once and in the order config, mesh,
\* operator, reorder, solve, persist, diagnose, plot: with -e both persistence
\* writes are done before the diagnostics start and the diagnostics are done
\* before any plot.
C7_StageOrder ==
  /\ \A i, j \in 1..Len(trace) : i < j => CodeRank(trace[i]) < CodeRank(trace[j])
  /\ StagesFollowFlags

C7_Witness ==
  /\ pc = "done" /\ cfg.order /\ cfg.eigen /\ cfg.splot /\ cfg.mplot
  /\ Len(trace) = 11

\* C8 as stated: the block matrix of the diagnostics is built from the matrix as
\* matvec_Nd returned it, also when reordering is enabled.
C8_Original ==
  asym # Unbound => asym = block(a0)

\* C8 amended: the 2N x 2N block matrix [[0, M], [M^T, 0]] of the diagnostics is
\* built from the matrix laplace holds after the reorder stage: the assembled A
\* without -r, the permuted Q A Q^T with -r.
C8_DiagnosticsInput ==
  asym # Unbound =>
    LET m == IF cfg.order THEN matmul(q, matmul(a0, transpose(q))) ELSE a0
        n == Len(a0)
    IN  /\ Len(asym) = 2 * n
        /\ \A i, j \in 1..n :
             /\ asym[i][j] = 0 /\ asym[n + i][n + j] = 0
             /\ asym[i][n + j] = m[i][j]
             /\ asym[n + i][j] = m[j][i]

C8_Witness ==
  /\ asym # Unbound /\ cfg.order
  /\ a # a0
  /\ a # transpose(a)

\* C9: the record handed to case_save_npz and case_save_bin is consistent: its
\* status is true exactly when its A times its s is close to its b.
C9_RecordConsistent ==
  \A rec \in {npz[i] : i \in 1..Len(npz)} \cup {bin[i] : i \in 1..Len(bin)} :
    rec.status <=> allclose(dot(rec.a, rec.s), rec.b)

\* the stages that come before persistence
PrePersist == {"parse_meshfile", "generate_mesh", "matvec", "reorder", "solve"}

\* C10: a failure before persistence, an ndims outside {1,2,3} included, ends the
\* run as a fatal error with nothing retried and nothing after it executed: no
\* persistence, no diagnostics, no plot; and when case_save_npz fails,
\* case_save_bin is not called.
C10_FailureIsFatal ==
  /\ failed # "" => (pc = "fatal" /\ exitcode = ExitException)
  /\ pc = "fatal" => failed # ""
  /\ \A i, j \in 1..Len(trace) : i < j => trace[i] # trace[j]
  /\ failed \in PrePersist =>
       /\ npz = <<>> /\ bin = <<>> /\ plots = {} /\ asym = Unbound
       /\ \A st \in {"case_save_npz", "case_save_bin", "eigen", "plotsol", "plotmat"} :
            ~Ran(st)
       /\ \A i \in 1..Len(trace) : CodeRank(trace[i]) <= CodeRank(failed)
  /\ failed = "case_save_npz" =>
       (npz = <<>> /\ bin = <<>> /\ ~Ran("case_save_bin") /\ plots = {})
  /\ (ndims # -1 /\ ndims \notin {1, 2, 3}) =>
       /\ pc \in {"generate_mesh", "matvec", "reorder", "solve", "fatal"}
       /\ a = Unbound /\ s = Unbound
       /\ ~Ran("matvec") /\ ~Ran("reorder") /\ ~Ran("solve")
       /\ npz = <<>> /\ bin = <<>> /\ plots = {}

C10_Witness ==
  /\ pc = "fatal" /\ failed = "solve"
  /\ ndims = 4 /\ cfg.order
  /\ ~Ran("solve")

====
